---- MODULE Spec2Model ----
(***************************************************************************)
(* Client-side session layer of ApexAsset AI.                              *)
(*                                                                         *)
(*   AuthService (frontend/src/services/auth.ts)  the session store: the   *)
(*       access/refresh token pair in memory and in localStorage;          *)
(*   apiFetch    (frontend/src/services/api.ts)   the request executor:    *)
(*       attaches the access token, and on 401 refreshes and retries.      *)
(*                                                                         *)
(* JavaScript runs one task at a time, so every action below is the code   *)
(* that runs between two suspension points (await fetch(...)).  The server *)
(* is the environment: every response it may give is a choice of \E.       *)
(* `await response.json()` of a response already received is folded into   *)
(* the step that receives the response: no code of the program reads or    *)
(* writes the session between the two.                                     *)
(*                                                                         *)
(* call[c] holds the local variables of invocation c of apiFetch while it  *)
(* runs (headers, response, newToken).  When the invocation returns or     *)
(* throws, its locals are gone: what stays is what the caller and the      *)
(* network saw (the returned response or the error, and how many calls     *)
(* were issued).                                                           *)
(*                                                                         *)
(*   useDashboard / ErrorProvider (hooks/useDashboard.ts and               *)
(*       contexts/ErrorContext.tsx, both in src/unnamed/part_003, whose    *)
(*       line numbers are used)  the dashboard view: refresh() loads       *)
(*       /dashboard through apiFetch; a promise that settles and the code  *)
(*       after the `await` on it are two steps, and the second runs before *)
(*       any other task (the microtask queue is drained first);            *)
(*   connectWebSocket (frontend/src/services/websocket.ts)  the realtime   *)
(*       channel: one WebSocket per call, its handlers and its cleanup;    *)
(*   AuthProvider / ProtectedRoute (frontend/src/contexts/AuthContext.tsx  *)
(*       and components/ProtectedRoute.tsx in src/unnamed/part_003)  the   *)
(*       React state over the session store: user, isLoading, and the      *)
(*       loadUser invocations that await GET /auth/me.                     *)
(*                                                                         *)
(* Four specifications share the variables: Spec (the session layer),      *)
(* SpecDash (the dashboard view over apiFetch), SpecWS (the realtime       *)
(* channel) and SpecAuth (the auth context over the session store, with    *)
(* SpecAuthFair for the lookups that are answered); each leaves the        *)
(* others' variables as Init made them.  The others are scenarios over     *)
(* the same actions: SpecPeriod, SpecBurst and SpecLatest (SpecDash with a *)
(* history recorded), SpecInbound (SpecWS with the                         *)
(* message events recorded), SpecWSFair (SpecWS with a reachable server),  *)
(* SpecClose (calls in flight while the channels are closed), SpecEvents   *)
(* (message events that reach the dashboard's callback) and SpecStartup    *)
(* (Spec with a storage medium that may be unavailable).                   *)
(***************************************************************************)
EXTENDS Integers, FiniteSets, Sequences, TLC

\* ---------------------------------------------------------------- bounds
NCalls == 2          \* apiFetch invocations per page load
MaxToken == 2        \* distinct token values the server may issue
MaxFurther == 2      \* realtime events counted against one re-fetch in flight
NConsumers == 2      \* effects that call connectWebSocket
NLoads == 2          \* loadUser invocations in flight at the same time

\* ------------------------------------------------------------- constants
NULL == 0            \* null: no token (auth.ts: string | null = null)
NoResponse == 0      \* `response` before the fetch has settled
Unauthorized == 401  \* response.status === 401
OK == 200
ServerError == 500
SecurityError == -1  \* localStorage.getItem throws: the medium is unavailable

Calls == 1..NCalls
Tokens == 1..MaxToken
Statuses == {OK, Unauthorized, ServerError}

\* The TokenResponse bodies the server may send (auth.ts 17-21): the pair of
\* tokens issued together.  The client never compares the two tokens of a
\* pair, so a pair is identified by one number.
TokenResponses ==
    {[access_token |-> k, refresh_token |-> k] : k \in Tokens}

\* Error messages thrown to the caller of apiFetch.
NoError == "none"
ErrNoRefreshToken == "No refresh token available"
ErrRefreshFailed == "Token refresh failed"
ErrNetwork == "TypeError: Failed to fetch"

VARIABLES
    auth,           \* AuthService fields: [accessToken, refreshToken]
    localStorage,   \* durable storage: [access_token, refresh_token]
    call,           \* call[c]: the state of apiFetch invocation c
    loginPending,   \* a POST /auth/login of AuthService.login is in flight
    redirected,     \* window.location.href = '/login' was assigned
    cleared,        \* logout() has run and no login has succeeded since
    view,           \* useDashboard state: [status, error, data, lastUpdated]
    dash,           \* dash[c]: the state of refresh() invocation c
    errorState,     \* ErrorProvider state: ErrorState | null
    period,         \* history of the re-fetches that overlap each other
    burst,          \* history of the events during one re-fetch
    latest,         \* history of the re-fetch that was issued last
    sock,           \* sock[k]: the WebSocket of consumer k and its history
    ctx             \* AuthProvider state: user, isLoading, calls in flight

sessionVars == <<auth, localStorage, call, loginPending, redirected, cleared>>
dashVars == <<view, dash, errorState, period, burst, latest>>
wsVars == <<sock>>
authVars == <<ctx>>
vars == <<auth, localStorage, call, loginPending, redirected, cleared,
          view, dash, errorState, period, burst, latest, sock, ctx>>

\* ------------------------------------------------------- the session store
NoTokens == [accessToken |-> NULL, refreshToken |-> NULL]
NoItems == [access_token |-> NULL, refresh_token |-> NULL]

\* The store as one value: the fields and the storage they are saved to.
Store == [auth |-> auth, localStorage |-> localStorage]

\* The storage medium when every read of it throws (storage is disabled or
\* blocked for the page).
Unavailable ==
    [access_token |-> SecurityError, refresh_token |-> SecurityError]

\* There is no AuthService: the constructor threw, so the module that
\* exports `authService` (auth.ts 133) and every module that imports it
\* failed to load.
NotConstructed ==
    [accessToken |-> SecurityError, refreshToken |-> SecurityError]

\* constructor(): the fields are read from localStorage; the exception of a
\* read is not caught.
constructor(ls) ==
    IF ls = Unavailable
    THEN NotConstructed
    ELSE [accessToken |-> ls.access_token, refreshToken |-> ls.refresh_token]

\* A faulty logout: the refresh token is left behind.
logout_accessOnly(st) ==
    [auth |-> [st.auth EXCEPT !.accessToken = NULL],
     localStorage |-> [st.localStorage EXCEPT !.access_token = NULL]]

\* A faulty logout: the items in localStorage are left behind.
logout_memoryOnly(st) ==
    [auth |-> [accessToken |-> NULL, refreshToken |-> NULL],
     localStorage |-> st.localStorage]

\* A faulty logout: the fields are left as they are.
logout_storageOnly(st) ==
    [auth |-> st.auth,
     localStorage |-> [access_token |-> NULL, refresh_token |-> NULL]]

\* logout(): both fields null, both items removed.
logout(st) ==
    [auth |-> [accessToken |-> NULL, refreshToken |-> NULL],
     localStorage |-> [access_token |-> NULL, refresh_token |-> NULL]]

\* A faulty setTokens: the tokens are not saved to localStorage.
setTokens_memoryOnly(st, accessToken, refreshToken) ==
    [auth |-> [accessToken |-> accessToken, refreshToken |-> refreshToken],
     localStorage |-> st.localStorage]

\* setTokens(accessToken, refreshToken)
setTokens(st, accessToken, refreshToken) ==
    [auth |-> [accessToken |-> accessToken, refreshToken |-> refreshToken],
     localStorage |-> [access_token |-> accessToken,
                       refresh_token |-> refreshToken]]

getAccessToken(st) == st.auth.accessToken

isAuthenticated(st) == st.auth.accessToken # NULL

\* The store after the step is st.
Becomes(st) ==
    /\ auth' = st.auth
    /\ localStorage' = st.localStorage

\* ---------------------------------------------------------------- apiFetch
\* An invocation that has not started.
NoCall ==
    [pc |-> "idle", requiresAuth |-> TRUE, hdr1 |-> NULL, joint |-> {},
     response |-> NoResponse, newToken |-> NULL, hdr2 |-> NULL,
     result |-> NoResponse, error |-> NoError, nFetch |-> 0, nRefresh |-> 0]

\* Line 50: return response.
Return(cr, status) ==
    [NoCall EXCEPT !.pc = "done", !.requiresAuth = cr.requiresAuth,
                   !.response = status, !.result = status,
                   !.nFetch = cr.nFetch, !.nRefresh = cr.nRefresh]

\* The invocation ends with error e thrown to the caller.
Throw(cr, e) ==
    [NoCall EXCEPT !.pc = "threw", !.requiresAuth = cr.requiresAuth,
                   !.response = cr.response, !.error = e,
                   !.nFetch = cr.nFetch, !.nRefresh = cr.nRefresh]

\* Lines 19-24: the Authorization header of the first outbound call
\* (NULL: none).
FirstHeader(requiresAuth, st) ==
    IF requiresAuth /\ getAccessToken(st) # NULL
    THEN getAccessToken(st) ELSE NULL

\* ------------------------------------------------- the dashboard view
\* part_003 79-86: the state of the hook when it mounts.  `data` is
\* the empty DashboardData or a payload of GET /dashboard; `lastUpdated` is
\* the Date of the mount or of a completed load.
InitialView ==
    [status |-> "idle", error |-> "", data |-> "empty", lastUpdated |-> "mount"]

\* A refresh() invocation that is not running.
NoRefresh == [pc |-> "none"]

\* part_003 159: useState<ErrorState | null>(null).
NoErrorState == [message |-> "", retry |-> "null"]

\* History of the re-fetches that overlapped since the view last had none in
\* flight, recorded by the specifications that set `on`.  While every one of
\* them has loaded after one refresh and one retry or is still in flight, and
\* no more than two were started: n is how many were started, retried how
\* many have loaded, idles how many times the status went from 'loading' to
\* 'idle' (2: more than once).  Otherwise n is 3 and nothing is counted.
NoPeriod == [on |-> FALSE, n |-> 0, idles |-> 0, retried |-> 0]

\* More than two re-fetches, or one that did not load after a retry.
Other(p) == [p EXCEPT !.n = 3, !.idles = 0, !.retried = 0]

\* History of one re-fetch, recorded by the specifications that set `on`:
\* `first` is the invocation that started when none was in flight, while it
\* is in flight (0 otherwise), `further` how many re-fetches realtime events
\* started during its flight.
NoBurst == [on |-> FALSE, first |-> 0, further |-> 0]

\* History of the re-fetch that was issued last, recorded by the
\* specifications that set `on`: `last` is the invocation that called
\* apiFetch('/dashboard') most recently, while it is in flight (0 once it
\* has finished), `outcome` how it finished: "loaded" (part_003 96-98) or
\* "failed" (the catch block), "none" while it has not.
NoLatest == [on |-> FALSE, last |-> 0, outcome |-> "none"]

\* Messages of the errors refresh() catches.
ErrJson == "SyntaxError: Unexpected end of JSON input"
ErrHttp401 == "Failed to load dashboard (HTTP 401)"
ErrHttp500 == "Failed to load dashboard (HTTP 500)"
Messages ==
    {ErrNoRefreshToken, ErrRefreshFailed, ErrNetwork, ErrJson,
     ErrHttp401, ErrHttp500}

\* ------------------------------------------------ the realtime channel
Consumers == 1..NConsumers

\* The topics argument of connectWebSocket: part_003 118 passes
\* ['alerts', 'production']; the function takes any list.
Topics == {"alerts", "production", "sensor_data"}
TopicLists == {<<"alerts", "production">>, <<"alerts">>}

\* websocket.ts 10-16: the types of WebSocketMessage.
MessageTypes ==
    {"connection", "subscription", "alert", "production", "sensor_data", "pong"}

\* The control messages of websocket.ts 37 and 57.
ControlMessages == [action : {"subscribe", "unsubscribe"}, topic : Topics]

\* event.data of a message event that JSON.parse rejects.
NotJSON == "not JSON"

\* History of the message events of one WebSocket, recorded by the
\* specifications that set `on`: `data` is event.data of the last one (a
\* message is identified by its type), `dropped` says that one of them did
\* not parse.
NoLog == [on |-> FALSE, data |-> "none", dropped |-> FALSE]

\* Consumer k before its effect has run: no WebSocket exists.  `mounted`: the
\* effect has called connectWebSocket and its cleanup has not run; `sent`:
\* what was sent on the current WebSocket; `closedBy`: who closed it;
\* `received`: the type of the last message handed to onMessage on it;
\* `reconnect`: the WebSocket before this one was closed by the other side,
\* and `lost` is the set of topics the consumer observed then; `log`: the
\* message events of the current WebSocket.
NoSocket(topics) ==
    [topics |-> topics, mounted |-> FALSE, readyState |-> "NONE",
     sent |-> <<>>, closedBy |-> "none", received |-> "none",
     reconnect |-> FALSE, lost |-> {}, log |-> NoLog]

\* ------------------------------------------------------ the auth context
Loads == 1..NLoads

\* A loadUser invocation that is not running.  While one runs, `by` is its
\* caller: the mount effect, login or refreshUser.
NoLoad == [pc |-> "none", by |-> "none"]

\* AuthContext.tsx 16-17: the state of AuthProvider as it mounts.  `user` is
\* null or the UserInfo of GET /auth/me; `mounted`: the effect of lines
\* 32-34 has run; `login`: where the last call of the context's login is
\* ("auth": awaiting authService.login, "load": awaiting loadUser) or how it
\* ended; `load[l]`: loadUser invocation l.
InitialContext ==
    [user |-> "null", isLoading |-> TRUE, mounted |-> FALSE,
     login |-> "none", load |-> [l \in Loads |-> NoLoad]]

\* The shape of the state: the AuthService fields (auth.ts 29-30), the two
\* localStorage items, and the local variables of each apiFetch invocation.
TypeOK ==
    /\ auth \in [accessToken : Tokens \cup {NULL},
                 refreshToken : Tokens \cup {NULL}] \cup {NotConstructed}
    /\ localStorage \in [access_token : Tokens \cup {NULL},
                         refresh_token : Tokens \cup {NULL}]
                           \cup {Unavailable}
    /\ \A c \in Calls :
         /\ call[c].pc \in {"idle", "fetch1", "refresh", "fetch2", "done", "threw"}
         /\ call[c].requiresAuth \in BOOLEAN
         /\ call[c].hdr1 \in Tokens \cup {NULL}
         /\ call[c].hdr2 \in Tokens \cup {NULL}
         /\ call[c].newToken \in Tokens \cup {NULL}
         /\ call[c].response \in Statuses \cup {NoResponse}
         /\ call[c].result \in Statuses \cup {NoResponse}
         /\ call[c].joint \subseteq Calls \ {c}
    /\ loginPending \in BOOLEAN
    /\ redirected \in BOOLEAN
    /\ cleared \in BOOLEAN
    /\ view \in [status : {"idle", "loading", "error"},
                 error : Messages \cup {""},
                 data : {"empty", "payload"},
                 lastUpdated : {"mount", "load"}]
    /\ dash \in [Calls -> [pc : {"none", "fetch"}]]
    /\ errorState \in [message : Messages \cup {""},
                       retry : {"refresh", "null"}]
    /\ period \in [on : BOOLEAN, n : 0..3, idles : 0..2, retried : 0..2]
    /\ burst \in [on : BOOLEAN, first : Calls \cup {0},
                  further : 0..MaxFurther]
    /\ latest \in [on : BOOLEAN, last : Calls \cup {0},
                   outcome : {"none", "loaded", "failed"}]
    /\ \A k \in Consumers :
         /\ sock[k].topics \in TopicLists
         /\ sock[k].readyState \in {"NONE", "CONNECTING", "OPEN", "CLOSED"}
         /\ sock[k].sent \in Seq(ControlMessages)
         /\ sock[k].closedBy \in {"none", "server", "cleanup"}
         /\ sock[k].received \in MessageTypes \cup {"none"}
         /\ sock[k].lost \subseteq Topics
         /\ sock[k].reconnect \in BOOLEAN
         /\ sock[k].mounted \in BOOLEAN
         /\ sock[k].log \in [on : BOOLEAN,
                             data : MessageTypes \cup {NotJSON, "none"},
                             dropped : BOOLEAN]
    /\ ctx \in [user : {"null", "info"},
                isLoading : BOOLEAN,
                mounted : BOOLEAN,
                login : {"none", "auth", "load", "resolved", "rejected"},
                load : [Loads -> [pc : {"none", "me"},
                                  by : {"none", "mount", "login",
                                        "refreshUser"}]]]

InitSession ==
    /\ localStorage \in
          {NoItems} \cup
          {[access_token |-> data.access_token,
            refresh_token |-> data.refresh_token] : data \in TokenResponses}
    /\ auth = constructor(localStorage)
    /\ call = [c \in Calls |-> NoCall]
    /\ loginPending = FALSE
    /\ redirected = FALSE
    /\ cleared = FALSE

\* The dashboard hook and the error provider as they mount.
InitDashboard ==
    /\ view = InitialView
    /\ dash = [c \in Calls |-> NoRefresh]
    /\ errorState = NoErrorState
    /\ period = NoPeriod
    /\ burst = NoBurst
    /\ latest = NoLatest

\* No effect has called connectWebSocket yet; every consumer is an instance
\* of the effect of part_003 114-126.
InitChannel ==
    sock = [k \in Consumers |-> NoSocket(<<"alerts", "production">>)]

\* AuthProvider has rendered for the first time; its effect has not run.
InitContext ==
    ctx = InitialContext

Init ==
    /\ InitSession
    /\ InitDashboard
    /\ InitChannel
    /\ InitContext

\* Lines 11-29: the headers are built from the store as it is now and the
\* first call is issued.
apiFetch(c, requiresAuth) ==
    /\ call[c].pc = "idle"
    /\ call' = [call EXCEPT ![c] =
          [NoCall EXCEPT
             !.pc = "fetch1",
             !.requiresAuth = requiresAuth,
             !.hdr1 = FirstHeader(requiresAuth, Store),
             !.nFetch = 1]]
    /\ UNCHANGED <<auth, localStorage, loginPending, redirected, cleared>>

\* A faulty NeedsRefresh: every response that is not ok starts a refresh.
NeedsRefresh_notOk(status, requiresAuth) ==
    status # OK /\ requiresAuth

\* A faulty NeedsRefresh: requiresAuth is not tested.
NeedsRefresh_any401(status, requiresAuth) ==
    status = Unauthorized

\* Line 32: the condition under which a refresh is attempted.
NeedsRefresh(status, requiresAuth) ==
    status = Unauthorized /\ requiresAuth

\* Lines 42-47: the catch block of apiFetch: logout(), redirect, rethrow.
Catch(c, st, cr, e) ==
    /\ Becomes(logout(st))
    /\ redirected' = TRUE
    /\ cleared' = TRUE
    /\ call' = [call EXCEPT ![c] = Throw(cr, e)]
    /\ UNCHANGED loginPending

\* The invocations that are awaiting their own refresh call for the access
\* token that invocation c sent.
AwaitingRefreshFor(c) ==
    {d \in Calls \ {c} : call[d].pc = "refresh" /\ call[d].hdr1 = call[c].hdr1}

\* Line 26 settles with a response; then line 32, and on 401 the start of
\* refreshAccessToken (auth.ts 73-84): it throws when there is no refresh
\* token, and issues POST /auth/refresh otherwise.  `joint` records, on both
\* sides, the invocations that await a refresh for the same rejected token at
\* the same time.
Response1(c) ==
    /\ call[c].pc = "fetch1"
    /\ \E status \in Statuses :
         LET cr == [call[c] EXCEPT !.response = status] IN
         IF NeedsRefresh(status, cr.requiresAuth)
         THEN IF auth.refreshToken = NULL
              THEN Catch(c, Store, cr, ErrNoRefreshToken)
              ELSE /\ call' = [d \in Calls |->
                        IF d = c
                        THEN [cr EXCEPT !.pc = "refresh",
                                        !.joint = AwaitingRefreshFor(c),
                                        !.nRefresh = @ + 1]
                        ELSE IF d \in AwaitingRefreshFor(c)
                        THEN [call[d] EXCEPT !.joint = @ \cup {c}]
                        ELSE call[d]]
                   /\ UNCHANGED <<auth, localStorage, loginPending,
                                  redirected, cleared>>
         ELSE /\ call' = [call EXCEPT ![c] = Return(cr, status)]
              /\ UNCHANGED <<auth, localStorage, loginPending,
                             redirected, cleared>>

\* A faulty NetworkError1: the call that was rejected is issued again.
NetworkError1_retries(c) ==
    /\ call[c].pc = "fetch1"
    /\ call' = [call EXCEPT ![c] =
          [call[c] EXCEPT !.pc = "fetch2", !.hdr2 = call[c].hdr1,
                          !.nFetch = @ + 1]]
    /\ UNCHANGED <<auth, localStorage, loginPending, redirected, cleared>>

\* Line 26 rejects (network failure): outside the try block, so the error
\* goes to the caller as it is.
NetworkError1(c) ==
    /\ call[c].pc = "fetch1"
    /\ call' = [call EXCEPT ![c] = Throw(call[c], ErrNetwork)]
    /\ UNCHANGED <<auth, localStorage, loginPending, redirected, cleared>>

\* A faulty RetryHeader: headers.set is forgotten, the rejected token stays.
RetryHeader_stale(newToken, hdr1, st) == hdr1

\* Line 35: the Authorization header of the retry.
RetryHeader(newToken, hdr1, st) == newToken

\* auth.ts 86-93 and api.ts 34-41: the refresh call settles with a response.
\* Not ok: logout() and throw, caught by apiFetch.  Ok: setTokens, the new
\* access token goes into the header and the original call is issued again.
RefreshResponse(c) ==
    /\ call[c].pc = "refresh"
    /\ \/ Catch(c, logout(Store), call[c], ErrRefreshFailed)
       \/ \E data \in TokenResponses :
            LET a == data.access_token
                st == setTokens(Store, data.access_token, data.refresh_token)
            IN
            /\ Becomes(st)
            /\ call' = [call EXCEPT ![c] =
                  [call[c] EXCEPT
                     !.pc = "fetch2",
                     !.newToken = a,
                     !.hdr2 = RetryHeader(a, call[c].hdr1, st),
                     !.nFetch = @ + 1]]
            /\ UNCHANGED <<loginPending, redirected, cleared>>

\* auth.ts 78 rejects (network failure), or the body of an ok response does
\* not parse at auth.ts 91: refreshAccessToken throws without logout();
\* apiFetch catches.
RefreshNetworkError(c) ==
    /\ call[c].pc = "refresh"
    /\ Catch(c, Store, call[c], ErrNetwork)

\* A faulty AfterRetry: a 401 on the retry starts another refresh.
AfterRetry_refreshAgain(cr, status) ==
    IF NeedsRefresh(status, cr.requiresAuth)
    THEN [cr EXCEPT !.pc = "refresh", !.response = status, !.nRefresh = @ + 1]
    ELSE Return(cr, status)

\* A faulty RetryResponse: a 401 on the retry is handled like a failed
\* refresh (logout and throw).
RetryResponse_logout(c) ==
    /\ call[c].pc = "fetch2"
    /\ \E status \in Statuses :
         IF status = Unauthorized
         THEN Catch(c, Store, [call[c] EXCEPT !.response = status],
                    ErrRefreshFailed)
         ELSE /\ call' = [call EXCEPT ![c] = Return(call[c], status)]
              /\ UNCHANGED <<auth, localStorage, loginPending,
                             redirected, cleared>>

\* Lines 38-50: the retry settles with a response, which is returned
\* whatever its status.
AfterRetry(cr, status) == Return(cr, status)

RetryResponse(c) ==
    /\ call[c].pc = "fetch2"
    /\ \E status \in Statuses :
         call' = [call EXCEPT ![c] = AfterRetry(call[c], status)]
    /\ UNCHANGED <<auth, localStorage, loginPending, redirected, cleared>>

\* Line 38 rejects (network failure): inside the try block, so apiFetch
\* catches it like a refresh failure.
RetryNetworkError(c) ==
    /\ call[c].pc = "fetch2"
    /\ Catch(c, Store, call[c], ErrNetwork)

\* ---------------------------------------------- login, logout, page load
\* auth.ts 38-46: AuthService.login issues POST /auth/login.
login ==
    /\ ~loginPending
    /\ loginPending' = TRUE
    /\ UNCHANGED <<auth, localStorage, call, redirected, cleared>>

\* auth.ts 53-55: the login response is ok: setTokens.
LoginOk ==
    /\ loginPending
    /\ \E data \in TokenResponses :
         Becomes(setTokens(Store, data.access_token, data.refresh_token))
    /\ loginPending' = FALSE
    /\ cleared' = FALSE
    /\ UNCHANGED <<call, redirected>>

\* A faulty LoginFailed: the failed login clears the session.
LoginFailed_logout ==
    /\ loginPending
    /\ loginPending' = FALSE
    /\ Becomes(logout(Store))
    /\ UNCHANGED <<call, redirected, cleared>>

\* auth.ts 48-51: the login response is not ok (or the call rejects): throw.
LoginFailed ==
    /\ loginPending
    /\ loginPending' = FALSE
    /\ UNCHANGED <<auth, localStorage, call, redirected, cleared>>

\* auth.ts 110-115, called by AuthContext.logout (AuthContext.tsx 41-44).
Logout ==
    /\ Becomes(logout(Store))
    /\ cleared' = TRUE
    /\ UNCHANGED <<call, loginPending, redirected>>

\* The page is loaded again (the navigation of api.ts 45, or the user's
\* reload): everything in flight is dropped and auth.ts 133 constructs the
\* AuthService from localStorage.
PageLoad ==
    /\ auth' = constructor(localStorage)
    /\ call' = [c \in Calls |-> NoCall]
    /\ loginPending' = FALSE
    /\ redirected' = FALSE
    /\ UNCHANGED <<localStorage, cleared>>

Next ==
    \/ /\ \E c \in Calls, ra \in BOOLEAN : apiFetch(c, ra)
       /\ UNCHANGED <<dashVars, wsVars, authVars>>
    \/ /\ \E c \in Calls : Response1(c)
       /\ UNCHANGED <<dashVars, wsVars, authVars>>
    \/ /\ \E c \in Calls : NetworkError1(c)
       /\ UNCHANGED <<dashVars, wsVars, authVars>>
    \/ /\ \E c \in Calls : RefreshResponse(c)
       /\ UNCHANGED <<dashVars, wsVars, authVars>>
    \/ /\ \E c \in Calls : RefreshNetworkError(c)
       /\ UNCHANGED <<dashVars, wsVars, authVars>>
    \/ /\ \E c \in Calls : RetryResponse(c)
       /\ UNCHANGED <<dashVars, wsVars, authVars>>
    \/ /\ \E c \in Calls : RetryNetworkError(c)
       /\ UNCHANGED <<dashVars, wsVars, authVars>>
    \/ login /\ UNCHANGED <<dashVars, wsVars, authVars>>
    \/ LoginOk /\ UNCHANGED <<dashVars, wsVars, authVars>>
    \/ LoginFailed /\ UNCHANGED <<dashVars, wsVars, authVars>>
    \/ Logout /\ UNCHANGED <<dashVars, wsVars, authVars>>
    \/ PageLoad /\ UNCHANGED <<dashVars, wsVars, authVars>>

Spec == Init /\ [][Next]_vars

\* The page with a storage medium that may be unavailable, for as long as
\* the page lives.
InitStartup ==
    /\ localStorage \in
          {NoItems, Unavailable} \cup
          {[access_token |-> data.access_token,
            refresh_token |-> data.refresh_token] : data \in TokenResponses}
    /\ auth = constructor(localStorage)
    /\ call = [c \in Calls |-> NoCall]
    /\ loginPending = FALSE
    /\ redirected = FALSE
    /\ cleared = FALSE
    /\ InitDashboard
    /\ InitChannel
    /\ InitContext

\* The application runs: its modules have loaded.
Constructed == auth # NotConstructed

\* The steps of the session layer, which need the application to run, and
\* the page load, which does not.
NextStartup ==
    \/ /\ Constructed
       /\ \E c \in Calls, ra \in BOOLEAN : apiFetch(c, ra)
       /\ UNCHANGED <<dashVars, wsVars, authVars>>
    \/ /\ Constructed
       /\ \E c \in Calls : Response1(c)
       /\ UNCHANGED <<dashVars, wsVars, authVars>>
    \/ /\ Constructed
       /\ \E c \in Calls : NetworkError1(c)
       /\ UNCHANGED <<dashVars, wsVars, authVars>>
    \/ /\ Constructed
       /\ \E c \in Calls : RefreshResponse(c)
       /\ UNCHANGED <<dashVars, wsVars, authVars>>
    \/ /\ Constructed
       /\ \E c \in Calls : RefreshNetworkError(c)
       /\ UNCHANGED <<dashVars, wsVars, authVars>>
    \/ /\ Constructed
       /\ \E c \in Calls : RetryResponse(c)
       /\ UNCHANGED <<dashVars, wsVars, authVars>>
    \/ /\ Constructed
       /\ \E c \in Calls : RetryNetworkError(c)
       /\ UNCHANGED <<dashVars, wsVars, authVars>>
    \/ Constructed /\ login /\ UNCHANGED <<dashVars, wsVars, authVars>>
    \/ Constructed /\ LoginOk /\ UNCHANGED <<dashVars, wsVars, authVars>>
    \/ Constructed /\ LoginFailed /\ UNCHANGED <<dashVars, wsVars, authVars>>
    \/ Constructed /\ Logout /\ UNCHANGED <<dashVars, wsVars, authVars>>
    \/ PageLoad /\ UNCHANGED <<dashVars, wsVars, authVars>>

SpecStartup == InitStartup /\ [][NextStartup]_vars

\* ------------------------------------------------------------ useDashboard
\* The refresh() invocations that have started and not finished.
InFlight == {c \in Calls : dash[c].pc # "none"}

\* apiFetch has settled for these and the code after `await apiFetch` has not
\* run yet: it is next in the microtask queue.
Settled == {c \in Calls : call[c].pc \in {"done", "threw"}}

\* The event loop may run a new task of this page: no microtask is queued,
\* and the page has not been left (api.ts 45 assigns window.location.href,
\* which unloads the page once the running task and its microtasks end).
TaskMayRun == Settled = {} /\ ~redirected

\* response.ok: the status is in the range 200-299.
ok(status) == status \in 200..299

\* part_003 93: the message of the Error thrown for a response that is
\* not ok.
ErrHttp(status) ==
    IF status = Unauthorized THEN ErrHttp401 ELSE ErrHttp500

\* A faulty reportError: the retry callback is dropped.
reportError_noRetry(message, retry) ==
    [message |-> message, retry |-> "null"]

\* part_003 161-166: setError({ message, retry: retry ?? null }).
reportError(message, retry) ==
    [message |-> message, retry |-> retry]

\* The period after one more refresh() has started.
Started(p) ==
    IF ~p.on THEN p
    ELSE IF InFlight = {} THEN [NoPeriod EXCEPT !.on = TRUE, !.n = 1]
    ELSE IF p.n = 1 THEN [p EXCEPT !.n = 2]
    ELSE Other(p)

\* The period after a refresh() has failed.
Lost(p) == IF p.on THEN Other(p) ELSE p

\* The period after a refresh() has loaded, the status going from `before`
\* to `after`.
Counted(p, retried, before, after) ==
    IF ~p.on THEN p
    ELSE IF retried /\ p.n < 3
    THEN [p EXCEPT !.retried = @ + 1,
                   !.idles = IF before = "loading" /\ after = "idle" /\ @ < 2
                             THEN @ + 1 ELSE @]
    ELSE Other(p)

\* The burst after invocation c of refresh() has started.
Begun(b, c, byEvent) ==
    IF ~b.on THEN b
    ELSE IF InFlight = {} THEN [b EXCEPT !.first = c, !.further = 0]
    ELSE IF byEvent /\ b.first # 0 THEN [b EXCEPT !.further = @ + 1]
    ELSE b

\* The burst after invocation c has finished.
Finished(b, c) ==
    IF b.on /\ b.first = c THEN [b EXCEPT !.first = 0, !.further = 0] ELSE b

\* The history of the last re-fetch after invocation c has called apiFetch.
Issued(h, c) ==
    IF h.on THEN [h EXCEPT !.last = c, !.outcome = "none"] ELSE h

\* The history of the last re-fetch after invocation c has finished.
Completed(h, c, outcome) ==
    IF h.on /\ h.last = c
    THEN [h EXCEPT !.last = 0, !.outcome = outcome] ELSE h

\* The model numbers the invocations that run at the same time: a new one
\* takes the lowest number that is free.
FreeSlot(c) ==
    /\ dash[c].pc = "none"
    /\ \A d \in Calls : d < c => dash[d].pc # "none"

\* part_003 88-92: refresh() sets the status to 'loading', clears the
\* error and calls apiFetch('/dashboard'), which issues the first call.
\* byEvent: the invocation was started by a realtime event.
refresh(c, byEvent) ==
    /\ FreeSlot(c)
    /\ (byEvent /\ burst.first # 0) => burst.further < MaxFurther
    /\ apiFetch(c, TRUE)
    /\ view' = [view EXCEPT !.status = "loading", !.error = ""]
    /\ dash' = [dash EXCEPT ![c].pc = "fetch"]
    /\ period' = Started(period)
    /\ burst' = Begun(burst, c, byEvent)
    /\ latest' = Issued(latest, c)

\* part_003 108-111: the initial-load effect calls refresh() (React.StrictMode
\* of main.tsx runs the effect twice on mount); line 133 also returns
\* `refresh` to the component that uses the hook.
Load(c) ==
    /\ TaskMayRun
    /\ refresh(c, FALSE)
    /\ UNCHANGED <<errorState, wsVars, authVars>>

\* A faulty callback: only alerts start a re-fetch.
Relevant_alertOnly(type) == type = "alert"

\* part_003 120: msg.type === 'alert' || msg.type === 'production'.
Relevant(type) == type \in {"alert", "production"}

\* part_003 119-123: the body of the callback: refresh() for a relevant
\* message, nothing otherwise.
Callback(type) ==
    IF Relevant(type)
    THEN /\ \E c \in Calls : refresh(c, TRUE)
         /\ UNCHANGED errorState
    ELSE UNCHANGED <<sessionVars, dashVars>>

\* part_003 119-123: the callback given to connectWebSocket.
onMessage(type) ==
    /\ TaskMayRun
    /\ Callback(type)
    /\ UNCHANGED <<wsVars, authVars>>

\* part_003 168-170, the banner's onDismiss.
clearError ==
    /\ TaskMayRun
    /\ errorState # NoErrorState
    /\ errorState' = NoErrorState
    /\ UNCHANGED <<sessionVars, view, dash, period, burst, latest, wsVars,
                   authVars>>

\* part_003 172-180, the banner's onRetry: clearError(), then
\* error.retry(), which is refresh.
handleRetry(c) ==
    /\ TaskMayRun
    /\ errorState.retry # "null"
    /\ errorState' = NoErrorState
    /\ refresh(c, FALSE)
    /\ UNCHANGED <<wsVars, authVars>>

\* A faulty catch block: it also stamps the view (setLastUpdated) and clears
\* its data.
Failed_stamps(c, message) ==
    /\ view' = [view EXCEPT !.status = "error", !.error = message,
                            !.data = "empty", !.lastUpdated = "load"]
    /\ errorState' = reportError(message, "refresh")
    /\ dash' = [dash EXCEPT ![c] = NoRefresh]
    /\ period' = Lost(period)
    /\ burst' = Finished(burst, c)
    /\ latest' = Completed(latest, c, "failed")

\* part_003 99-104: the catch block of refresh().
Failed(c, message) ==
    /\ view' = [view EXCEPT !.status = "error", !.error = message]
    /\ errorState' = reportError(message, "refresh")
    /\ dash' = [dash EXCEPT ![c] = NoRefresh]
    /\ period' = Lost(period)
    /\ burst' = Finished(burst, c)
    /\ latest' = Completed(latest, c, "failed")

\* A faulty success path: setStatus('idle') is missing.
Loaded_statusKept(v) ==
    [v EXCEPT !.data = "payload", !.lastUpdated = "load"]

\* part_003 96-98: setData(json), setStatus('idle'),
\* setLastUpdated(new Date()).
Loaded(v) ==
    [v EXCEPT !.data = "payload", !.status = "idle", !.lastUpdated = "load"]

\* apiFetch answered invocation c after one refresh and one retry.
Retried(c) == call[c].nFetch = 2 /\ call[c].nRefresh = 1

\* The code after `await apiFetch('/dashboard')` runs for invocation c, and
\* the promise it awaited is dropped.  `await response.json()` of line 95 is
\* folded into this step: refresh() reads and writes nothing between the
\* response and its body, so a body that arrives later is a response that
\* arrives later.
Resumes(c) ==
    /\ c \in Settled
    /\ dash[c].pc = "fetch"
    /\ call' = [call EXCEPT ![c] = NoCall]
    /\ UNCHANGED <<auth, localStorage, loginPending, redirected, cleared,
                   wsVars, authVars>>

\* part_003 92-94, 99-104: apiFetch threw, or its response is not ok and
\* line 94 throws: the catch block runs.
Resume(c) ==
    /\ Resumes(c)
    /\ call[c].pc = "done" => ~ok(call[c].result)
    /\ Failed(c, IF call[c].pc = "threw" THEN call[c].error
                 ELSE ErrHttp(call[c].result))

\* part_003 92-98: the response is ok and response.json() resolves.
JsonResolved(c) ==
    /\ Resumes(c)
    /\ call[c].pc = "done" /\ ok(call[c].result)
    /\ view' = Loaded(view)
    /\ dash' = [dash EXCEPT ![c] = NoRefresh]
    /\ period' = Counted(period, Retried(c), view.status, view'.status)
    /\ burst' = Finished(burst, c)
    /\ latest' = Completed(latest, c, "loaded")
    /\ UNCHANGED errorState

\* part_003 92-95, 99-104: the response is ok and response.json() rejects
\* (the body is not JSON).
JsonRejected(c) ==
    /\ Resumes(c)
    /\ call[c].pc = "done" /\ ok(call[c].result)
    /\ Failed(c, ErrJson)

NextDash ==
    \/ \E c \in Calls : Load(c)
    \/ \E type \in MessageTypes : onMessage(type)
    \/ clearError
    \/ \E c \in Calls : handleRetry(c)
    \/ \E c \in Calls : Resume(c)
    \/ \E c \in Calls : JsonResolved(c)
    \/ \E c \in Calls : JsonRejected(c)
    \/ \E c \in Calls :
         TaskMayRun /\ Response1(c) /\ UNCHANGED <<dashVars, wsVars, authVars>>
    \/ \E c \in Calls :
         TaskMayRun /\ NetworkError1(c) /\ UNCHANGED <<dashVars, wsVars, authVars>>
    \/ \E c \in Calls :
         TaskMayRun /\ RefreshResponse(c) /\ UNCHANGED <<dashVars, wsVars, authVars>>
    \/ \E c \in Calls :
         TaskMayRun /\ RefreshNetworkError(c) /\ UNCHANGED <<dashVars, wsVars, authVars>>
    \/ \E c \in Calls :
         TaskMayRun /\ RetryResponse(c) /\ UNCHANGED <<dashVars, wsVars, authVars>>
    \/ \E c \in Calls :
         TaskMayRun /\ RetryNetworkError(c) /\ UNCHANGED <<dashVars, wsVars, authVars>>

\* The dashboard is mounted behind ProtectedRoute (part_003 9-26):
\* a session is in the store.  Token values are only compared for equality,
\* so the session is taken to be the first pair the server issued.
SignedIn ==
    /\ isAuthenticated(Store)
    /\ getAccessToken(Store) = 1

InitDash ==
    /\ Init
    /\ SignedIn

SpecDash == InitDash /\ [][NextDash]_vars

\* The dashboard with the history of the overlapping re-fetches recorded.
InitPeriod ==
    /\ InitSession
    /\ SignedIn
    /\ view = InitialView
    /\ dash = [c \in Calls |-> NoRefresh]
    /\ errorState = NoErrorState
    /\ period = [NoPeriod EXCEPT !.on = TRUE]
    /\ burst = NoBurst
    /\ latest = NoLatest
    /\ InitChannel
    /\ InitContext

SpecPeriod == InitPeriod /\ [][NextDash]_vars

\* The dashboard with the history of the events during a re-fetch recorded.
InitBurst ==
    /\ InitSession
    /\ SignedIn
    /\ view = InitialView
    /\ dash = [c \in Calls |-> NoRefresh]
    /\ errorState = NoErrorState
    /\ period = NoPeriod
    /\ burst = [NoBurst EXCEPT !.on = TRUE]
    /\ latest = NoLatest
    /\ InitChannel
    /\ InitContext

SpecBurst == InitBurst /\ [][NextDash]_vars

\* The dashboard with the history of the re-fetch issued last recorded.
InitLatest ==
    /\ InitSession
    /\ SignedIn
    /\ view = InitialView
    /\ dash = [c \in Calls |-> NoRefresh]
    /\ errorState = NoErrorState
    /\ period = NoPeriod
    /\ burst = NoBurst
    /\ latest = [NoLatest EXCEPT !.on = TRUE]
    /\ InitChannel
    /\ InitContext

SpecLatest == InitLatest /\ [][NextDash]_vars

\* -------------------------------------------------------- connectWebSocket
Range(seq) == {seq[i] : i \in 1..Len(seq)}

\* A faulty subscription list: the topics are subscribed last to first.
Subscribes_reversed(topics) ==
    [i \in 1..Len(topics) |->
        [action |-> "subscribe", topic |-> topics[Len(topics) + 1 - i]]]

\* A faulty subscription list: only the first topic is subscribed.
Subscribes_firstOnly(topics) ==
    IF topics = <<>> THEN <<>>
    ELSE <<[action |-> "subscribe", topic |-> topics[1]]>>

\* websocket.ts 36-38: one subscribe message for each topic, in list order.
Subscribes(topics) ==
    [i \in 1..Len(topics) |-> [action |-> "subscribe", topic |-> topics[i]]]

\* websocket.ts 55-61: one unsubscribe message for each topic, in list order.
Unsubscribes(topics) ==
    [i \in 1..Len(topics) |-> [action |-> "unsubscribe", topic |-> topics[i]]]

\* websocket.ts 28-53 and the return at 54: the effect of consumer k runs
\* and calls connectWebSocket(topics, onMessage): a new WebSocket is
\* constructed and its handlers are set.
connectWebSocket(k) ==
    /\ ~sock[k].mounted
    /\ sock' = [sock EXCEPT ![k] =
          [topics |-> sock[k].topics, mounted |-> TRUE,
           readyState |-> "CONNECTING", sent |-> <<>>, closedBy |-> "none",
           received |-> "none",
           reconnect |-> sock[k].closedBy = "server",
           lost |-> IF sock[k].closedBy = "server" THEN sock[k].lost ELSE {},
           log |-> [NoLog EXCEPT !.on = sock[k].log.on]]]
    /\ UNCHANGED <<sessionVars, dashVars, authVars>>

\* websocket.ts 35-39: ws.onopen.
onopen(k) ==
    /\ sock[k].readyState = "CONNECTING"
    /\ sock' = [sock EXCEPT ![k].readyState = "OPEN",
                            ![k].sent = @ \o Subscribes(sock[k].topics)]
    /\ UNCHANGED <<sessionVars, dashVars, authVars>>

\* websocket.ts 43: JSON.parse(event.data) returns a message (and does not
\* throw).
parses(data) == data \in MessageTypes

\* The log after a message event with this data.
Logged(l, data) ==
    IF l.on
    THEN [l EXCEPT !.data = data, !.dropped = @ \/ ~parses(data)]
    ELSE l

\* websocket.ts 41-48, the WebSocket's side of a message event: the message
\* that parses is handed to the callback.
Receives(k, data) ==
    /\ sock[k].readyState = "OPEN"
    /\ IF parses(data)
       THEN sock' = [sock EXCEPT ![k].received = data,
                                 ![k].log = Logged(@, data)]
       ELSE sock' = [sock EXCEPT ![k].log = Logged(@, data)]

\* A faulty onmessage: a parse error closes the connection.
onmessage_errorCloses(k, data) ==
    /\ sock[k].readyState = "OPEN"
    /\ IF parses(data)
       THEN sock' = [sock EXCEPT ![k].received = data,
                                 ![k].log = Logged(@, data)]
       ELSE sock' = [sock EXCEPT ![k].log = Logged(@, data),
                                 ![k].readyState = "CLOSED"]
    /\ UNCHANGED <<sessionVars, dashVars, authVars>>

\* websocket.ts 41-48: ws.onmessage.  JSON.parse throws for data that is not
\* JSON and the catch block ignores it; otherwise onMessage(msg) is called.
onmessage(k, data) ==
    /\ Receives(k, data)
    /\ UNCHANGED <<sessionVars, dashVars, authVars>>

\* The server or the network closes the connection (or refuses it while it
\* is connecting): the error event finds the empty handler of websocket.ts
\* 50-52 and the close event no handler at all.
onerror(k) ==
    /\ sock[k].readyState \in {"CONNECTING", "OPEN"}
    /\ sock' = [sock EXCEPT ![k].readyState = "CLOSED",
                            ![k].closedBy = "server",
                            ![k].lost = Range(sock[k].topics)]
    /\ UNCHANGED <<sessionVars, dashVars, authVars>>

\* A faulty cleanup: ws.close() is missing.
cleanup_noClose(k) ==
    /\ sock[k].mounted
    /\ sock' = [sock EXCEPT
          ![k].mounted = FALSE,
          ![k].sent = IF sock[k].readyState = "OPEN"
                      THEN @ \o Unsubscribes(sock[k].topics) ELSE @]
    /\ UNCHANGED <<sessionVars, dashVars, authVars>>

\* A faulty cleanup: closing the channel aborts the calls in flight.
cleanup_aborts(k) ==
    /\ sock[k].mounted
    /\ sock' = [sock EXCEPT
          ![k].mounted = FALSE,
          ![k].sent = IF sock[k].readyState = "OPEN"
                      THEN @ \o Unsubscribes(sock[k].topics) ELSE @,
          ![k].readyState = "CLOSED",
          ![k].closedBy = IF sock[k].readyState = "CLOSED"
                          THEN @ ELSE "cleanup"]
    /\ call' = [c \in Calls |->
                  IF call[c].pc \in {"fetch1", "refresh", "fetch2"}
                  THEN Throw(call[c], ErrNetwork) ELSE call[c]]
    /\ UNCHANGED <<auth, localStorage, loginPending, redirected, cleared,
                   dashVars, authVars>>

\* A faulty cleanup: the unsubscribe messages are sent whatever the state of
\* the socket (as if ws.send never threw).
cleanup_sendsAlways(k) ==
    /\ sock[k].mounted
    /\ sock' = [sock EXCEPT
          ![k].mounted = FALSE,
          ![k].sent = @ \o Unsubscribes(sock[k].topics),
          ![k].readyState = "CLOSED",
          ![k].closedBy = IF sock[k].readyState = "CLOSED"
                          THEN @ ELSE "cleanup"]
    /\ UNCHANGED <<sessionVars, dashVars, authVars>>

\* websocket.ts 54-63: the cleanup function.  ws.send throws while the
\* socket is connecting (caught at line 58), and sends nothing once it is
\* closed; ws.close() closes a socket that is not closed yet.
cleanup(k) ==
    /\ sock[k].mounted
    /\ sock' = [sock EXCEPT
          ![k].mounted = FALSE,
          ![k].sent = IF sock[k].readyState = "OPEN"
                      THEN @ \o Unsubscribes(sock[k].topics) ELSE @,
          ![k].readyState = "CLOSED",
          ![k].closedBy = IF sock[k].readyState = "CLOSED"
                          THEN @ ELSE "cleanup"]
    /\ UNCHANGED <<sessionVars, dashVars, authVars>>

NextWS ==
    \/ \E k \in Consumers : connectWebSocket(k)
    \/ \E k \in Consumers : onopen(k)
    \/ \E k \in Consumers, data \in MessageTypes \cup {NotJSON} :
          onmessage(k, data)
    \/ \E k \in Consumers : onerror(k)
    \/ \E k \in Consumers : cleanup(k)

\* The consumers call connectWebSocket with any of the topic lists; nobody
\* is signed in and the dashboard state is as it mounts.
InitWS ==
    /\ localStorage = NoItems
    /\ auth = constructor(localStorage)
    /\ call = [c \in Calls |-> NoCall]
    /\ loginPending = FALSE
    /\ redirected = FALSE
    /\ cleared = FALSE
    /\ InitDashboard
    /\ InitContext
    /\ sock \in [Consumers -> {NoSocket(topics) : topics \in TopicLists}]

SpecWS == InitWS /\ [][NextWS]_vars

\* The realtime channel with a server that is reachable: a socket that
\* stays connecting is opened.
FairWS ==
    \A k \in Consumers : WF_vars(onopen(k))

SpecWSFair == InitWS /\ [][NextWS]_vars /\ FairWS

\* The realtime channel of the dashboard's effect, with the message events
\* of the WebSockets of the first consumer recorded (the consumers share
\* nothing, so one stands for each).
InitInbound ==
    /\ InitSession
    /\ localStorage = NoItems
    /\ InitDashboard
    /\ InitContext
    /\ sock = [k \in Consumers |->
                 [NoSocket(<<"alerts", "production">>) EXCEPT
                    !.log.on = (k = 1)]]

SpecInbound == InitInbound /\ [][NextWS]_vars

\* The WebSocket of a consumer whose effect has run and whose connection has
\* opened (websocket.ts 28-39).
OpenSocket(topics) ==
    [NoSocket(topics) EXCEPT !.mounted = TRUE, !.readyState = "OPEN",
                             !.sent = Subscribes(topics)]

\* A signed-in page whose realtime channels are open.
InitClose ==
    /\ InitSession
    /\ SignedIn
    /\ InitDashboard
    /\ InitContext
    /\ sock = [k \in Consumers |-> OpenSocket(<<"alerts", "production">>)]

\* The calls of the page and the cleanups of its channels, in any order.
NextClose ==
    \/ /\ \E c \in Calls, ra \in BOOLEAN : apiFetch(c, ra)
       /\ UNCHANGED <<dashVars, wsVars, authVars>>
    \/ /\ \E c \in Calls : Response1(c)
       /\ UNCHANGED <<dashVars, wsVars, authVars>>
    \/ /\ \E c \in Calls : NetworkError1(c)
       /\ UNCHANGED <<dashVars, wsVars, authVars>>
    \/ /\ \E c \in Calls : RefreshResponse(c)
       /\ UNCHANGED <<dashVars, wsVars, authVars>>
    \/ /\ \E c \in Calls : RefreshNetworkError(c)
       /\ UNCHANGED <<dashVars, wsVars, authVars>>
    \/ /\ \E c \in Calls : RetryResponse(c)
       /\ UNCHANGED <<dashVars, wsVars, authVars>>
    \/ /\ \E c \in Calls : RetryNetworkError(c)
       /\ UNCHANGED <<dashVars, wsVars, authVars>>
    \/ \E k \in Consumers : cleanup(k)

SpecClose == InitClose /\ [][NextClose]_vars

\* websocket.ts 41-48 with the callback of part_003 119-123: a message event
\* on the WebSocket of consumer k runs ws.onmessage, which calls the
\* dashboard's callback with the message that parses.
message(k, data) ==
    /\ TaskMayRun
    /\ Receives(k, data)
    /\ IF parses(data)
       THEN Callback(data)
       ELSE UNCHANGED <<sessionVars, dashVars>>
    /\ UNCHANGED authVars

\* The mounted dashboard with its channel open and nobody at the keyboard:
\* message events arrive and the re-fetches they start run to their end.
NextEvents ==
    \/ \E data \in MessageTypes \cup {NotJSON} : message(1, data)
    \/ \E c \in Calls : Resume(c)
    \/ \E c \in Calls : JsonResolved(c)
    \/ \E c \in Calls : JsonRejected(c)
    \/ \E c \in Calls :
         TaskMayRun /\ Response1(c) /\ UNCHANGED <<dashVars, wsVars, authVars>>
    \/ \E c \in Calls :
         TaskMayRun /\ NetworkError1(c) /\ UNCHANGED <<dashVars, wsVars, authVars>>
    \/ \E c \in Calls :
         TaskMayRun /\ RefreshResponse(c) /\ UNCHANGED <<dashVars, wsVars, authVars>>
    \/ \E c \in Calls :
         TaskMayRun /\ RefreshNetworkError(c) /\ UNCHANGED <<dashVars, wsVars, authVars>>
    \/ \E c \in Calls :
         TaskMayRun /\ RetryResponse(c) /\ UNCHANGED <<dashVars, wsVars, authVars>>
    \/ \E c \in Calls :
         TaskMayRun /\ RetryNetworkError(c) /\ UNCHANGED <<dashVars, wsVars, authVars>>

InitEvents ==
    /\ InitSession
    /\ SignedIn
    /\ InitDashboard
    /\ InitContext
    /\ sock = [k \in Consumers |->
                 IF k = 1 THEN OpenSocket(<<"alerts", "production">>)
                 ELSE NoSocket(<<"alerts", "production">>)]

SpecEvents == InitEvents /\ [][NextEvents]_vars

\* ------------------------------------------------------------ AuthProvider
\* The model numbers the loadUser invocations that run at the same time: a
\* new one takes the lowest number that is free.
FreeLoad(l) ==
    /\ ctx.load[l].pc = "none"
    /\ \A m \in Loads : m < l => ctx.load[m].pc # "none"

\* AuthContext.tsx 52: isAuthenticated: user !== null.
contextIsAuthenticated(cx) == cx.user # "null"

\* A loadUser invocation called by `by` has returned: the login that awaited
\* it resolves (AuthContext.tsx 38-39).
Ended(cx, by) ==
    IF by = "login" THEN [cx EXCEPT !.login = "resolved"] ELSE cx

\* A faulty loadUser: setIsLoading(false) is skipped when no token is stored.
loadUser_skipKeepsLoading(cx, st, l, by) ==
    IF isAuthenticated(st)
    THEN [cx EXCEPT !.load[l] = [pc |-> "me", by |-> by]]
    ELSE Ended(cx, by)

\* AuthContext.tsx 19-22 and 28-29: loadUser() up to its await, called by
\* `by` as invocation l with the store st: with a token in the store GET
\* /auth/me is issued; without one, setIsLoading(false) and return.
loadUser(cx, st, l, by) ==
    IF isAuthenticated(st)
    THEN [cx EXCEPT !.load[l] = [pc |-> "me", by |-> by]]
    ELSE Ended([cx EXCEPT !.isLoading = FALSE], by)

\* AuthContext.tsx 32-34: the effect runs as AuthProvider mounts and calls
\* loadUser(): once, or twice under the StrictMode of main.tsx 10 in a
\* development build.
useEffect(n) ==
    /\ ~ctx.mounted
    /\ ctx' = LET first == loadUser([ctx EXCEPT !.mounted = TRUE],
                                    Store, 1, "mount")
              IN IF n = 2 THEN loadUser(first, Store, 2, "mount") ELSE first
    /\ UNCHANGED <<sessionVars, dashVars, wsVars>>

\* AuthContext.tsx 46-48: refreshUser() calls loadUser().
refreshUser(l) ==
    /\ ctx.mounted
    /\ FreeLoad(l)
    /\ ctx' = loadUser(ctx, Store, l, "refreshUser")
    /\ UNCHANGED <<sessionVars, dashVars, wsVars>>

\* auth.ts 96-107 and AuthContext.tsx 22-23, 29: GET /auth/me is answered ok:
\* setUser(userInfo), setIsLoading(false).
userLoaded(l) ==
    /\ ctx.load[l].pc = "me"
    /\ ctx' = Ended([ctx EXCEPT !.user = "info", !.isLoading = FALSE,
                                !.load[l] = NoLoad],
                    ctx.load[l].by)
    /\ UNCHANGED <<sessionVars, dashVars, wsVars>>

\* auth.ts 103-105 and AuthContext.tsx 24-29: GET /auth/me is answered not
\* ok, or the call rejects: getCurrentUser throws, and the catch block runs
\* authService.logout() and setUser(null); then setIsLoading(false), and
\* loadUser returns without throwing.
userFailed(l) ==
    /\ ctx.load[l].pc = "me"
    /\ Becomes(logout(Store))
    /\ cleared' = TRUE
    /\ ctx' = Ended([ctx EXCEPT !.user = "null", !.isLoading = FALSE,
                                !.load[l] = NoLoad],
                    ctx.load[l].by)
    /\ UNCHANGED <<call, loginPending, redirected, dashVars, wsVars>>

\* AuthContext.tsx 36-37: login() calls authService.login, which issues
\* POST /auth/login.
contextLogin ==
    /\ ctx.mounted
    /\ ctx.login \notin {"auth", "load"}
    /\ login
    /\ ctx' = [ctx EXCEPT !.login = "auth"]
    /\ UNCHANGED <<dashVars, wsVars>>

\* auth.ts 53-55 and AuthContext.tsx 38: the login response is ok:
\* setTokens, authService.login returns, and login() calls loadUser().
contextLoginOk(l) ==
    /\ ctx.login = "auth"
    /\ FreeLoad(l)
    /\ LoginOk
    /\ ctx' = loadUser([ctx EXCEPT !.login = "load"], Store', l, "login")
    /\ UNCHANGED <<dashVars, wsVars>>

\* auth.ts 48-51 and AuthContext.tsx 37: the login response is not ok:
\* authService.login throws and login() rejects with its error.
contextLoginFailed ==
    /\ ctx.login = "auth"
    /\ LoginFailed
    /\ ctx' = [ctx EXCEPT !.login = "rejected"]
    /\ UNCHANGED <<dashVars, wsVars>>

\* AuthContext.tsx 41-44: logout(): authService.logout(), setUser(null).
contextLogout ==
    /\ ctx.mounted
    /\ Logout
    /\ ctx' = [ctx EXCEPT !.user = "null"]
    /\ UNCHANGED <<dashVars, wsVars>>

\* A faulty ProtectedRoute: the user is tested before isLoading.
ProtectedRoute_userFirst(authenticated, loading) ==
    IF ~authenticated THEN "Navigate"
    ELSE IF loading THEN "loading" ELSE "children"

\* part_003 9-26: what ProtectedRoute renders: the loading screen, the
\* redirection to /login, or its children.
ProtectedRoute(authenticated, loading) ==
    IF loading THEN "loading"
    ELSE IF ~authenticated THEN "Navigate" ELSE "children"

NextAuth ==
    \/ \E n \in 1..2 : useEffect(n)
    \/ \E l \in Loads : refreshUser(l)
    \/ \E l \in Loads : userLoaded(l)
    \/ \E l \in Loads : userFailed(l)
    \/ contextLogin
    \/ \E l \in Loads : contextLoginOk(l)
    \/ contextLoginFailed
    \/ contextLogout

\* One life of the page, with what the session layer found in localStorage.
SpecAuth == Init /\ [][NextAuth]_vars

\* The auth context with a server that answers: the effect runs, and every
\* GET /auth/me settles.
FairAuth ==
    /\ WF_vars(\E n \in 1..2 : useEffect(n))
    /\ \A l \in Loads : WF_vars(userLoaded(l) \/ userFailed(l))

SpecAuthFair == Init /\ [][NextAuth]_vars /\ FairAuth

\* ------------------------------------------------------------ properties
Absent == auth = NoTokens /\ localStorage = NoItems

\* C1: at most one refresh call is in flight in every reachable state.
C1_SingleFlight ==
    Cardinality({c \in Calls : call[c].pc = "refresh"}) <= 1

\* C2: calls that awaited a refresh at the same time, for the same rejected
\* access token, and are retrying after a successful refresh, all retry with
\* the same access token.
C2_SameRetryToken ==
    \A a, b \in Calls :
        (a # b /\ b \in call[a].joint
              /\ call[a].pc = "fetch2" /\ call[b].pc = "fetch2")
            => call[a].hdr2 = call[b].hdr2

\* C3: the outcome of calls that awaited a refresh at the same time for the
\* same rejected access token is uniform: when b leaves its refresh and a
\* has left it before, either both have retried, or both have thrown the
\* same error without retrying.
C3_Uniform(a, b) ==
    (/\ call[b].pc = "refresh" /\ a \in call[b].joint
     /\ call[a].pc # "refresh"
     /\ call'[b].pc \notin {"refresh", "idle"})
        => \/ call'[a].nFetch = 2 /\ call'[b].nFetch = 2
           \/ /\ call'[a].pc = "threw" /\ call'[b].pc = "threw"
              /\ call'[a].nFetch = 1 /\ call'[b].nFetch = 1
              /\ call'[a].error = call'[b].error

\* C3, over every step and every pair of calls.
C3_UniformOutcome ==
    [][\A a, b \in Calls : C3_Uniform(a, b)]_vars

\* C4: in every reachable state the access token and the refresh token are
\* both present or both absent, in memory and in localStorage.
C4_BothOrNeither ==
    /\ (auth.accessToken = NULL) <=> (auth.refreshToken = NULL)
    /\ (localStorage.access_token = NULL) <=> (localStorage.refresh_token = NULL)

\* C4 witness: a session installed by a refresh has been removed by a logout
\* while the call that refreshed is still retrying.
C4_Witness ==
    \E c \in Calls :
        /\ call[c].pc = "fetch2" /\ call[c].newToken # NULL
        /\ cleared /\ auth = NoTokens

\* C5: one apiFetch invocation issues at most one refresh call and at most
\* two calls to the endpoint, also when its retry is answered 401.
C5_OneRefreshTwoCalls ==
    \A c \in Calls :
        /\ call[c].nRefresh <= 1
        /\ call[c].nFetch <= 2
        /\ call[c].nFetch = 2 => call[c].pc \in {"fetch2", "done", "threw"}

\* C5 witness: the retry after a successful refresh was answered 401.
C5_Witness ==
    \E c \in Calls :
        /\ call[c].pc = "done" /\ call[c].result = Unauthorized
        /\ call[c].nRefresh = 1 /\ call[c].nFetch = 2

\* C6: the step in which the retry is answered 401 returns that response to
\* the caller and leaves the session as it was; and unless a logout has run
\* since, the session is present once that call has returned.
C6_RetryDenied(c) ==
    (/\ call[c].pc = "fetch2" /\ call'[c].pc \notin {"fetch2", "idle"}
     /\ call'[c].response = Unauthorized /\ call'[c].error # ErrNetwork)
        => /\ call'[c].pc = "done"
           /\ call'[c].result = Unauthorized
           /\ call'[c].error = NoError
           /\ auth' = auth
           /\ localStorage' = localStorage

C6_SessionKept ==
    \A c \in Calls :
        (/\ call[c].pc = "done" /\ call[c].result = Unauthorized
         /\ call[c].nFetch = 2 /\ ~cleared)
            => (auth.accessToken # NULL /\ localStorage.access_token # NULL)

\* C6: both parts, in every step and every reachable state.
C6_RetryDeniedIsCallScoped ==
    /\ [][\A c \in Calls : C6_RetryDenied(c)]_vars
    /\ []C6_SessionKept

\* C6 witness: the retry was answered 401, the call has returned it, and a
\* session is in the store.
C6_Witness ==
    \E c \in Calls :
        /\ call[c].pc = "done" /\ call[c].result = Unauthorized
        /\ call[c].nFetch = 2
        /\ ~cleared /\ auth.accessToken # NULL

\* C7: the step in which the refresh call of an invocation fails (the
\* invocation leaves the refresh without a new token) clears the session in
\* memory and in localStorage and throws to the caller, and the original
\* call is not issued again.
C7_RefreshFails(c) ==
    /\ call[c].pc = "refresh"
    /\ call'[c].pc \notin {"refresh", "idle"}
    /\ call'[c].newToken = NULL

C7_Cleared(c) ==
    C7_RefreshFails(c)
        => /\ auth' = NoTokens
           /\ localStorage' = NoItems
           /\ call'[c].pc = "threw"
           /\ call'[c].error # NoError
           /\ call'[c].nFetch = 1

\* C7, over every step; and an invocation whose refresh was answered not-ok
\* has thrown and has issued the original call once.
C7_RefreshFailureClears ==
    /\ [][\A c \in Calls : C7_Cleared(c)]_vars
    /\ [](\A c \in Calls :
            call[c].error = ErrRefreshFailed
                => call[c].pc = "threw" /\ call[c].nFetch = 1)

\* C7 witness: the refresh of an invocation has failed and the session is
\* gone from memory and from localStorage.
C7_Witness ==
    \E c \in Calls :
        /\ call[c].pc = "threw" /\ call[c].error = ErrRefreshFailed
        /\ call[c].nRefresh = 1
        /\ Absent

\* C8: a call that starts after logout() and before the next successful
\* login sends its first outbound call without an Authorization header.
C8_Starts(c) ==
    (call[c].pc = "idle" /\ call'[c].pc = "fetch1" /\ cleared)
        => call'[c].hdr1 = NULL

\* C8, over every step that starts a call.
C8_NoHeaderAfterClear ==
    [][\A c \in Calls : C8_Starts(c)]_vars

\* C9: after a successful refresh the original call is issued exactly once
\* more, with the access token that refresh returned; without a refresh it
\* is not issued again.
C9_RetryOnceWithNewToken ==
    \A c \in Calls :
        /\ call[c].pc = "fetch2"
              => /\ call[c].newToken # NULL
                 /\ call[c].hdr2 = call[c].newToken
                 /\ call[c].nFetch = 2
        /\ call[c].nFetch <= 1 + call[c].nRefresh

\* C9 witness: a call rejected with one token is retrying with another, the
\* one its refresh returned.
C9_Witness ==
    \E c \in Calls :
        /\ call[c].pc = "fetch2" /\ call[c].nFetch = 2
        /\ call[c].hdr1 # NULL /\ call[c].hdr2 # call[c].hdr1
        /\ call[c].hdr2 = call[c].newToken

\* C10: while no session exists, an authenticated call is sent without
\* credentials, and when the server answers it the caller gets that answer
\* as the returned response, not an exception.
C10_Answered(c) ==
    /\ (call[c].pc = "idle" /\ call'[c].pc = "fetch1" /\ auth = NoTokens)
          => call'[c].hdr1 = NULL
    /\ (/\ call[c].pc = "fetch1" /\ call[c].requiresAuth
        /\ call[c].hdr1 = NULL /\ auth = NoTokens
        /\ call'[c].response # NoResponse)
          => /\ call'[c].pc = "done"
             /\ call'[c].result = call'[c].response

\* C10, over every step.
C10_NoSessionReturnsResponse ==
    [][\A c \in Calls : C10_Answered(c)]_vars

\* C11: the step in which the first call is answered with a status other
\* than 401 returns that response, with no refresh call and no retry issued,
\* and leaves the session as it was.
C11_Passed(c) ==
    (/\ call[c].pc = "fetch1"
     /\ call'[c].response \notin {NoResponse, Unauthorized})
        => /\ call'[c].pc = "done"
           /\ call'[c].result = call'[c].response
           /\ call'[c].error = NoError
           /\ call'[c].nFetch = 1
           /\ call'[c].nRefresh = 0
           /\ auth' = auth
           /\ localStorage' = localStorage

\* C11, over every step and every call.
C11_OtherStatusReturned ==
    [][\A c \in Calls : C11_Passed(c)]_vars

\* C11 witness: an authenticated call sent with a token was answered 500
\* and has returned that response, with the session still in the store.
C11_Witness ==
    \E c \in Calls :
        /\ call[c].pc = "done" /\ call[c].result = ServerError
        /\ call[c].requiresAuth /\ call[c].nFetch = 1
        /\ auth.accessToken # NULL /\ ~cleared

\* C12: a present session becomes absent only in a step that is an explicit
\* logout (no call takes part in it), a failed refresh, or a 401 with no
\* refresh token to resolve it.
C12_ClearedOnlyBy ==
    [][(auth.accessToken # NULL /\ auth'.accessToken = NULL)
          => \/ call' = call
             \/ \E c \in Calls :
                   call[c].pc = "refresh" /\ call'[c].pc = "threw"
             \/ \E c \in Calls :
                   call[c].pc = "fetch1" /\ call'[c].error = ErrNoRefreshToken
      ]_vars

\* C13: in every reachable state the tokens in memory are the ones in
\* localStorage, so that constructing the store again yields the session
\* it holds.
C13_MemoryEqualsStorage ==
    auth = constructor(localStorage)

\* C13 witness: the session installed by a refresh is in memory and in
\* localStorage.
C13_Witness ==
    \E c \in Calls :
        /\ call[c].pc = "fetch2"
        /\ auth.accessToken = call[c].newToken
        /\ localStorage.access_token = call[c].newToken
        /\ localStorage.refresh_token # NULL

\* C14: while the re-fetch that began a period is in flight, realtime events
\* start at most one further re-fetch, however many of them arrive.
C14_AtMostOneFurther ==
    burst.further <= 1

\* C15: in every reachable state at most one re-fetch of the view is in
\* flight.
C15_OneInFlight ==
    Cardinality(InFlight) <= 1

\* C16: when two re-fetches that ran at the same time have both loaded after
\* a 401, one successful refresh and a successful retry, and no other
\* re-fetch ran with them, the status has gone from 'loading' to 'idle'
\* exactly once.
C16_IdleOnce ==
    (InFlight = {} /\ period.n = 2 /\ period.retried = 2)
        => period.idles = 1

\* C16 witness: the two re-fetches of the scenario have both loaded and the
\* view is idle with the payload.
C16_Witness ==
    /\ InFlight = {} /\ period.n = 2 /\ period.retried = 2
    /\ view.status = "idle" /\ view.data = "payload"
    /\ ~redirected

\* C17: invocation c resumes after apiFetch threw or returned a response
\* that is not ok.
C17_Fails(c) ==
    /\ dash[c].pc = "fetch"
    /\ call[c].pc \in {"done", "threw"}
    /\ call'[c].pc = "idle"
    /\ call[c].pc = "done" => ~ok(call[c].result)

\* C17: the message of the failure of invocation c.
C17_Message(c) ==
    IF call[c].pc = "threw" THEN call[c].error ELSE ErrHttp(call[c].result)

\* C17: the step in which a re-fetch fails sets the status to 'error',
\* reports the message to the error context with refresh as the retry
\* callback, ends the invocation and starts no fetch.
C17_FailureReported ==
    [][\A c \in Calls :
          C17_Fails(c)
              => /\ view'.status = "error"
                 /\ view'.error = C17_Message(c)
                 /\ errorState' = [message |-> C17_Message(c),
                                   retry |-> "refresh"]
                 /\ dash'[c].pc = "none"
                 /\ \A d \in Calls :
                       /\ call'[d].pc = "fetch1" => call[d].pc = "fetch1"
                       /\ dash'[d].pc = "fetch" => dash[d].pc = "fetch"
      ]_vars

\* C17 witness: a re-fetch answered 500 has failed: the view shows the error
\* and the error context holds it with the retry callback, with no re-fetch
\* in flight.
C17_Witness ==
    /\ view.status = "error" /\ view.error = ErrHttp500
    /\ errorState = [message |-> ErrHttp500, retry |-> "refresh"]
    /\ InFlight = {}

\* C18: whenever the connection of a consumer whose effect is active has
\* been closed by the other side, the consumer's channel is later connecting
\* again or open (or the consumer has ended it with its cleanup).
C18_Reconnects ==
    \A k \in Consumers :
        (sock[k].mounted /\ sock[k].closedBy = "server")
            ~> \/ sock[k].readyState \in {"CONNECTING", "OPEN"}
               \/ ~sock[k].mounted

\* C19: how many subscribe messages for topic t were sent on the WebSocket
\* of consumer k.
C19_Subscribes(k, t) ==
    Cardinality({i \in 1..Len(sock[k].sent) :
                    sock[k].sent[i] = [action |-> "subscribe", topic |-> t]})

C20_Unsubscribed(k, t) ==
    {i \in (Len(sock[k].sent) + 1)..Len(sock'[k].sent) :
        sock'[k].sent[i] = [action |-> "unsubscribe", topic |-> t]}

\* C20: the cleanup of a consumer sends no unsubscribe message for a topic
\* that another consumer with an open connection still observes.
C20_NonLastSilent ==
    [][\A k \in Consumers, t \in Topics :
          (/\ sock[k].mounted /\ ~sock'[k].mounted
           /\ \E j \in Consumers \ {k} :
                 /\ sock[j].mounted /\ sock[j].readyState = "OPEN"
                 /\ t \in Range(sock[j].topics))
              => C20_Unsubscribed(k, t) = {}
      ]_vars

\* C21: the cleanup of the current WebSocket of consumer k has been invoked
\* and the effect has not called connectWebSocket again.
C21_Disposed(k) ==
    ~sock[k].mounted /\ sock[k].readyState # "NONE"

\* C21: once the cleanup of a channel has been invoked its WebSocket is
\* closed, and while the effect makes no new call of connectWebSocket no
\* step opens it, connects it again, sends on it or delivers from it.
C21_StaysDisconnected ==
    /\ [](\A k \in Consumers :
             C21_Disposed(k) => sock[k].readyState = "CLOSED")
    /\ [][\A k \in Consumers :
             (C21_Disposed(k) /\ ~sock'[k].mounted) => sock'[k] = sock[k]]_vars

\* C21 witness: the cleanup of an open channel has run (it has sent its
\* unsubscribe messages) while another consumer's channel is still open.
C21_Witness ==
    \E k, j \in Consumers :
        /\ C21_Disposed(k) /\ sock[k].closedBy = "cleanup"
        /\ Len(sock[k].sent) = 2 * Len(sock[k].topics)
        /\ sock[j].mounted /\ sock[j].readyState = "OPEN"

\* C22: a message event whose data does not parse, on a WebSocket on which
\* none was dropped before, changes nothing but the record of it: the
\* callback is not invoked, nothing is sent and the connection stays open.
C22_Dropped(k) ==
    (~sock[k].log.dropped /\ sock'[k].log.dropped)
        => /\ sock'[k] = [sock[k] EXCEPT !.log = sock'[k].log]
           /\ sock'[k].readyState = "OPEN"
           /\ UNCHANGED <<sessionVars, dashVars, authVars>>

\* C22: a message event whose data parses is handed to the callback, also
\* after one was dropped on the same WebSocket.
C22_Delivered(k) ==
    (sock'[k].log # sock[k].log /\ parses(sock'[k].log.data))
        => sock'[k].received = sock'[k].log.data

\* C22, over every step and every WebSocket whose message events are recorded.
C22_MalformedDropped ==
    [][\A k \in Consumers : C22_Dropped(k) /\ C22_Delivered(k)]_vars

\* C22 witness: on an open WebSocket a message that does not parse was
\* dropped and an alert that arrived after it has been handed to the callback.
C22_Witness ==
    \E k \in Consumers :
        /\ sock[k].log.dropped /\ sock[k].log.data = "alert"
        /\ sock[k].received = "alert"
        /\ sock[k].readyState = "OPEN"

\* C23: a channel of the page has been closed by its cleanup.
C23_Closed ==
    \E k \in Consumers : ~sock[k].mounted /\ sock[k].closedBy = "cleanup"

\* C23: the step that closes a channel leaves every call as it is (in
\* flight if it was) and the session store as it is; and once a channel is
\* closed every call still in flight can be answered and can fail, by the
\* same steps as with the channel open (no step of a call reads the channel).
C23_CloseCancelsNothing ==
    /\ [][sock' # sock
            => /\ call' = call
               /\ auth' = auth
               /\ localStorage' = localStorage
               /\ redirected' = redirected]_vars
    /\ [](C23_Closed =>
            \A c \in Calls :
               /\ call[c].pc = "fetch1"
                     => ENABLED Response1(c) /\ ENABLED NetworkError1(c)
               /\ call[c].pc = "refresh"
                     => ENABLED RefreshResponse(c)
                        /\ ENABLED RefreshNetworkError(c)
               /\ call[c].pc = "fetch2"
                     => ENABLED RetryResponse(c)
                        /\ ENABLED RetryNetworkError(c))

\* C23 witness: a refresh that was in flight when the channels were closed
\* has succeeded after the closure: its new session is in the store and its
\* call is retrying.
C23_Witness ==
    \E c \in Calls :
        /\ \A k \in Consumers : ~sock[k].mounted /\ sock[k].closedBy = "cleanup"
        /\ call[c].pc = "fetch2" /\ call[c].newToken # call[c].hdr1
        /\ auth.accessToken = call[c].newToken
        /\ localStorage.access_token = call[c].newToken

\* C24: the types of the events of the topics the dashboard declares
\* relevant ('alerts' and 'production').
C24_EventTypes == {"alert", "production"}

\* C24: invocation c of refresh() starts in this step, with the first call
\* of an authenticated apiFetch issued.
C24_Refetch(c) ==
    /\ call[c].pc = "idle" /\ call'[c].pc = "fetch1"
    /\ call'[c].requiresAuth /\ call'[c].nFetch = 1
    /\ dash[c].pc = "none" /\ dash'[c].pc = "fetch"

\* C24: the step in which a message of another type than the last one is
\* handed to the dashboard's callback starts a re-fetch when the message is
\* an alert or a production event and changes nothing of the dashboard or of
\* the calls otherwise; and every re-fetch that starts while only message
\* events arrive is started by an alert or a production event.
C24_EventsRefetch ==
    [][/\ sock'[1].received # sock[1].received
            => IF sock'[1].received \in C24_EventTypes
               THEN \E c \in Calls : C24_Refetch(c)
               ELSE UNCHANGED <<sessionVars, dashVars>>
       /\ (\E c \in Calls : C24_Refetch(c))
            => sock'[1].received \in C24_EventTypes
      ]_vars

\* C24 witness: a production event has started a re-fetch while another
\* re-fetch was in flight.
C24_Witness ==
    /\ sock[1].received = "production"
    /\ Cardinality(InFlight) = 2
    /\ \E c \in Calls : call[c].pc = "fetch1" /\ call[c].requiresAuth
    /\ view.status = "loading"

\* C25: the step takes away a token that was in memory or in localStorage.
C25_Removes ==
    \/ auth.accessToken # NULL /\ auth'.accessToken = NULL
    \/ auth.refreshToken # NULL /\ auth'.refreshToken = NULL
    \/ localStorage.access_token # NULL /\ localStorage'.access_token = NULL
    \/ localStorage.refresh_token # NULL /\ localStorage'.refresh_token = NULL

\* C25: every step that removes a token (a step in which logout() runs: the
\* store has no other way to remove one) removes the whole session: in the
\* state it leaves, the first one another operation can observe, both fields
\* are null, both items are removed and isAuthenticated() is false.
C25_LogoutWhole ==
    [][C25_Removes
          => /\ auth' = NoTokens
             /\ localStorage' = NoItems
             /\ ~(auth'.accessToken # NULL)]_vars

\* C25 witness: logout() has run while a call that was sent with the
\* session's token is in flight; nothing of the session is left for it to
\* observe.
C25_Witness ==
    \E c \in Calls :
        /\ call[c].pc = "fetch1" /\ call[c].hdr1 # NULL
        /\ cleared /\ Absent /\ ~isAuthenticated(Store)
        /\ ~redirected

\* C26: when the storage medium fails as the store reads it at startup, the
\* store exists and holds no session (both tokens absent).
C26_FailSafe ==
    localStorage = Unavailable => auth = NoTokens

\* C27: the first outbound call of invocation c settles in this step without
\* a response (the fetch was rejected).
C27_Rejected(c) ==
    /\ call[c].pc = "fetch1"
    /\ call'[c].pc \notin {"fetch1", "idle"}
    /\ call'[c].response = NoResponse

\* C27: the step in which the first outbound call is rejected throws that
\* error to the caller with no refresh call and no second call issued, and
\* leaves the session and the page as they were.
C27_NetworkErrorSurfaced ==
    [][\A c \in Calls :
          C27_Rejected(c)
              => /\ call'[c].pc = "threw"
                 /\ call'[c].error = ErrNetwork
                 /\ call'[c].nFetch = 1
                 /\ call'[c].nRefresh = 0
                 /\ auth' = auth
                 /\ localStorage' = localStorage
                 /\ redirected' = redirected
      ]_vars

\* C27 witness: an authenticated call sent with the session's token was
\* rejected by the network and has thrown; the session is still in the store.
C27_Witness ==
    \E c \in Calls :
        /\ call[c].pc = "threw" /\ call[c].error = ErrNetwork
        /\ call[c].response = NoResponse
        /\ call[c].requiresAuth /\ call[c].nFetch = 1 /\ call[c].nRefresh = 0
        /\ auth.accessToken # NULL /\ ~redirected /\ ~cleared

\* C28: what holds of an invocation with requiresAuth=false in every state:
\* no Authorization header on its call, no refresh call, no second call, and
\* once it has returned, the response it received as its result.
C28_Plain(c) ==
    ~call[c].requiresAuth
        => /\ call[c].hdr1 = NULL /\ call[c].hdr2 = NULL
           /\ call[c].nRefresh = 0 /\ call[c].nFetch <= 1
           /\ call[c].pc \in {"fetch1", "done", "threw"}
           /\ call[c].pc = "done" => call[c].result = call[c].response
           /\ call[c].pc = "threw" => call[c].error = ErrNetwork

\* C28: a step of an invocation with requiresAuth=false leaves the session
\* and the page as they were.
C28_Frame(c) ==
    (call'[c] # call[c] /\ call'[c].pc # "idle" /\ ~call'[c].requiresAuth)
        => /\ auth' = auth
           /\ localStorage' = localStorage
           /\ redirected' = redirected
           /\ cleared' = cleared

\* C28, in every reachable state and every step.
C28_NoAuthUntouched ==
    /\ [](\A c \in Calls : C28_Plain(c))
    /\ [][\A c \in Calls : C28_Frame(c)]_vars

\* C28 witness: with a session in the store, a call with requiresAuth=false
\* was answered 401 and has returned that response after one call.
C28_Witness ==
    \E c \in Calls :
        /\ ~call[c].requiresAuth
        /\ call[c].pc = "done" /\ call[c].result = Unauthorized
        /\ call[c].nFetch = 1 /\ call[c].nRefresh = 0
        /\ auth.accessToken # NULL /\ auth.refreshToken # NULL
        /\ ~cleared /\ ~redirected

\* C29: what was sent on the WebSocket of consumer k begins with one
\* subscribe message for each entry of its topic list, in list order, and
\* holds no other subscribe message.
C29_Subscribed(k) ==
    /\ Len(sock[k].sent) >= Len(sock[k].topics)
    /\ \A i \in 1..Len(sock[k].sent) :
          IF i <= Len(sock[k].topics)
          THEN sock[k].sent[i] =
                  [action |-> "subscribe", topic |-> sock[k].topics[i]]
          ELSE sock[k].sent[i].action # "subscribe"

\* C29: a WebSocket that has not opened has sent nothing, and one that has
\* opened has sent exactly the subscribe messages of its topic list, in list
\* order.
C29_SubscribeOnOpen ==
    \A k \in Consumers :
        /\ sock[k].readyState \in {"NONE", "CONNECTING"}
              => sock[k].sent = <<>>
        /\ sock[k].readyState = "OPEN" => C29_Subscribed(k)
        /\ sock[k].readyState = "CLOSED"
              => sock[k].sent = <<>> \/ C29_Subscribed(k)

\* C29 witness: the first connection of a consumer with the dashboard's
\* topic list is open and has sent the two subscribe messages, while another
\* consumer's connection is still connecting and has sent nothing.
C29_Witness ==
    \E k, j \in Consumers :
        /\ sock[k].readyState = "OPEN" /\ ~sock[k].reconnect
        /\ sock[k].topics = <<"alerts", "production">>
        /\ sock[k].sent = <<[action |-> "subscribe", topic |-> "alerts"],
                            [action |-> "subscribe", topic |-> "production"]>>
        /\ sock[j].readyState = "CONNECTING" /\ sock[j].sent = <<>>

\* C30: in every reachable state, if logout() has run and no login has
\* succeeded since, the session is absent from memory and from localStorage.
C30_StaysLoggedOut ==
    cleared => Absent

\* C33: in every reachable state, if the auth context says authenticated
\* (user !== null) the session store holds an access token.
C33_FlagAgreesWithStore ==
    contextIsAuthenticated(ctx) => isAuthenticated(Store)

\* C34: the step in which the context's login resolves leaves the user
\* non-null and a session in the store.
C34_ResolvesAuthenticated ==
    [][(ctx.login # "resolved" /\ ctx'.login = "resolved")
          => /\ ctx'.user # "null"
             /\ auth'.accessToken # NULL
      ]_vars

\* C35: the step in which authService.login fails rejects the login (the
\* error is thrown through AuthContext.login) and leaves the tokens in
\* memory and in localStorage as they were before the attempt; and no step
\* of a login that is awaiting its response changes them otherwise.
C35_FailedLoginKeepsStore ==
    [][/\ (ctx.login = "auth" /\ ctx'.login # "auth")
            => ctx'.login \in {"rejected", "load", "resolved"}
       /\ (ctx.login = "auth" /\ ctx'.login = "rejected")
            => /\ auth' = auth
               /\ localStorage' = localStorage
               /\ cleared' = cleared
               /\ ctx'.user = ctx.user
      ]_vars

\* C35 witness: a login attempt made while signed in has failed, and the
\* session held before it is still in memory and in localStorage.
C35_Witness ==
    /\ ctx.login = "rejected"
    /\ ctx.user = "info"
    /\ auth.accessToken # NULL /\ auth.refreshToken # NULL
    /\ localStorage.access_token = auth.accessToken
    /\ ~cleared

\* C38: ProtectedRoute renders its children exactly when isLoading is false
\* and the context says authenticated, never redirects while isLoading is
\* true, and redirects whenever loading has finished with no user.
C38_RouteGuard ==
    LET rendered ==
          ProtectedRoute(contextIsAuthenticated(ctx), ctx.isLoading)
    IN /\ rendered = "children" <=> (~ctx.isLoading /\ ctx.user # "null")
       /\ ctx.isLoading => rendered = "loading"
       /\ (~ctx.isLoading /\ ctx.user = "null") => rendered = "Navigate"

\* C38 witness: a user lookup has failed and logged out: loading has
\* finished with no user and no lookup is in flight.
C38_Witness ==
    /\ ctx.mounted /\ ~ctx.isLoading /\ ctx.user = "null"
    /\ cleared /\ Absent
    /\ \A l \in Loads : ctx.load[l].pc = "none"

\* C39: the initial user lookup has not settled: the effect has not run, or
\* a loadUser it called is awaiting GET /auth/me.
C39_InitialPending ==
    \/ ~ctx.mounted
    \/ \E l \in Loads : ctx.load[l].pc = "me" /\ ctx.load[l].by = "mount"

\* C39: isLoading is true initially and only while the initial lookup has
\* not settled; it eventually becomes false; and once false no step makes it
\* true again.
C39_LoadingEnds ==
    /\ ctx.isLoading
    /\ [](ctx.isLoading => C39_InitialPending)
    /\ <>(~ctx.isLoading)
    /\ [][~ctx.isLoading => ~ctx'.isLoading]_vars

\* C39 witness: the page was loaded with no token stored, the lookup was
\* skipped and isLoading is false; a login is now awaiting its own lookup.
C39_Witness ==
    /\ ~ctx.isLoading /\ ctx.mounted
    /\ ctx.login = "load"
    /\ \E l \in Loads : ctx.load[l] = [pc |-> "me", by |-> "login"]
    /\ ctx.user = "null"

\* C37: every unsubscribe message in what was sent on the WebSocket of
\* consumer k comes after a subscribe message for the same topic.
C37_Ordered(k) ==
    \A i \in 1..Len(sock[k].sent) :
        sock[k].sent[i].action = "unsubscribe"
            => \E j \in 1..(i - 1) :
                  sock[k].sent[j] =
                     [action |-> "subscribe", topic |-> sock[k].sent[i].topic]

\* C37: on every WebSocket an unsubscribe message follows a subscribe
\* message for its topic, and a WebSocket that was closed without having
\* opened (no subscribe message was sent on it) has sent nothing at all.
C37_UnsubscribeAfterSubscribe ==
    \A k \in Consumers :
        /\ C37_Ordered(k)
        /\ (\A i \in 1..Len(sock[k].sent) :
               sock[k].sent[i].action # "subscribe")
              => sock[k].sent = <<>>

\* C37 witness: the cleanup of a consumer ran while its WebSocket was still
\* connecting (the effect torn down under StrictMode): nothing was sent on
\* it; another consumer's WebSocket opened and was cleaned up, and sent its
\* subscribe and then its unsubscribe messages.
C37_Witness ==
    \E k, j \in Consumers :
        /\ ~sock[k].mounted /\ sock[k].readyState = "CLOSED"
        /\ sock[k].closedBy = "cleanup" /\ sock[k].sent = <<>>
        /\ ~sock[j].mounted /\ sock[j].closedBy = "cleanup"
        /\ Len(sock[j].sent) = 2 * Len(sock[j].topics)

\* C32: whenever a re-fetch of the dashboard view is in flight the status of
\* the view is 'loading' (the status is 'idle' or 'error' only when none is
\* in flight).
C32_LoadingWhileInFlight ==
    InFlight # {} => view.status = "loading"

\* C36: invocation c of refresh() finishes in this step.
C36_Completes(c) == dash[c].pc = "fetch" /\ dash'[c].pc = "none"

\* C36: a re-fetch fails in this step: an invocation finishes and leaves the
\* status 'error', which only the catch block sets.
C36_Fails == \E c \in Calls : C36_Completes(c) /\ view'.status = "error"

\* C36: a re-fetch completes successfully in this step: an invocation whose
\* response is ok finishes and the catch block has not run.
C36_Succeeds ==
    /\ \E c \in Calls :
          C36_Completes(c) /\ call[c].pc = "done" /\ call[c].result \in 200..299
    /\ view'.status = "idle"

\* C36: a failed re-fetch leaves the data and lastUpdated of the view
\* unchanged, both change only in the step of a re-fetch that completes
\* successfully, and lastUpdated never goes back from the time of a load to
\* the time of the mount.
C36_FailureKeepsData ==
    [][ /\ C36_Fails
           => view'.data = view.data /\ view'.lastUpdated = view.lastUpdated
        /\ (view'.data # view.data \/ view'.lastUpdated # view.lastUpdated)
           => C36_Succeeds
        /\ view.lastUpdated = "load" => view'.lastUpdated = "load" ]_vars

\* C36 witness: a re-fetch of a view that had loaded has failed: the status
\* is 'error' and the view still has the payload and the time of the load.
C36_Witness ==
    /\ InFlight = {}
    /\ view.status = "error"
    /\ view.data = "payload" /\ view.lastUpdated = "load"

\* C31: once no re-fetch of the dashboard view is in flight, the status of
\* the view is the one the re-fetch that was issued last produced ('idle'
\* and its payload if it loaded, 'error' if it failed): the response of a
\* re-fetch issued earlier that arrives later has not overwritten it.
C31_LatestWins ==
    (latest.on /\ InFlight = {})
        => /\ latest.outcome = "loaded"
                => view.status = "idle" /\ view.data = "payload"
           /\ latest.outcome = "failed" => view.status = "error"

====
